---- MODULE Spec2Model ----
(***************************************************************************)
(* Character controller and chase camera of src/main.js.                   *)
(*                                                                         *)
(* Numbers are fixed point: angles in milliradians, lengths in 1/1000 of a *)
(* world unit, times in milliseconds, sines and cosines in 1/1000.         *)
(* The animation clock advanced by mixer.update (line 170) and the pixels  *)
(* drawn by renderer.render (line 171) belong to the rendering library and *)
(* are not state of this model.                                            *)
(***************************************************************************)
EXTENDS Integers, Sequences, FiniteSets, TLC

VARIABLES
    character,          \* the character handle is set (line 68)
    walkAction,         \* the walk action handle is set (line 74)
    charLoad,           \* "pending" | "loaded" | "failed": the character request
    walkPlaying,        \* the walk action is scheduled by the mixer (play/stop)
    keys,               \* the key map (lines 83-88)
    yaw, pitch,         \* look angles (lines 98-99), milliradians
    pointerLockElement, \* document.pointerLockElement: "canvas" | "none"
    lockRequested,      \* requestPointerLock was called and is not yet answered
    mouseListeners,     \* how many times onMouseMove is registered on document
    prevTime,           \* time of the previous frame (line 121), ms
    wasMoving,          \* line 123
    charYaw,            \* character.quaternion: a rotation about Y by this angle
    position,           \* character.position
    camPos,             \* camera.position
    lookAt,             \* the point the camera was last aimed at, <<>> if never
    aspect,             \* camera.aspect, as <<width, height>>
    rendererSize,       \* the renderer's output size
    moves,              \* how many mouse-motion samples the platform produced
    log,                \* per frame: [loaded, moving, call], see Frame
    heldAtLoad,         \* the net intent was non-zero when the load completed
    lastFrame,          \* what the latest frame read: [keys, yaw, pitch, gap,
                        \* from (character.position), cam (camera.position)]
    lastMove,           \* the latest mouse-motion sample, <<dx, dy>>
    house,              \* "pending" | "loaded" (in the scene) | "failed"
    errorLog,           \* console.error entries: [asset, frame], frame being the
                        \* number of frames run before the entry
    tapAt,              \* the number of frames run before the latest press and
                        \* release of a key while no key was held, if no key
                        \* event changed the key map since; -1 otherwise
    twin                \* a second run of the program fed the same events, but
                        \* for the vertical mouse motion: its pitch and its
                        \* character pose

vars == <<character, walkAction, charLoad, walkPlaying, keys, yaw, pitch,
          pointerLockElement, lockRequested, mouseListeners, prevTime,
          wasMoving, charYaw, position, camPos, lookAt, aspect, rendererSize,
          moves, log, heldAtLoad, lastFrame, lastMove, house, errorLog,
          twin, tapAt>>

----------------------------------------------------------------------------
(* Bounds of the model *)

MaxFrames == 1
MaxMoves == 1
MaxWalkFrames == 3
MaxLookFrames == 1
MaxLookMoves == 2
MaxSettleFrames == 45

(* Inputs *)

OtherCodes == {"Space"}
MouseDeltas == {<<100, -300>>}
Gaps == {2000}
WindowSizes == {<<800, 600>>, <<1280, 720>>}
WalkGaps == {16}
LookCodes == {"KeyW"}
LookDeltas == {<<-250, 900>>, <<400, -1000>>, <<30, -40>>}
LookGaps == {16, 50, 2000}
MoveDeltas == {<<-250, 900>>}
HeldCodes == {"KeyW", "KeyA", "KeyS"}
TwinCodes == {"KeyW", "KeyD"}
TwinDeltas == {<<-250, 900, -400>>, <<400, -1000, 1000>>}
MoveGaps == {16}

----------------------------------------------------------------------------
(* Program constants *)

Milli == 1000
MOVEMENT_SPEED == 5
MaxDeltaMs == 50
Sensitivity == 2
PiM == 3142
HalfPi == PiM \div 2
LerpTenths == 2
CHARACTER_START_POSITION == <<0, 0, 0>>
CameraStart == <<0, 3000, 10000>>
FrontOffset == <<0, 2800, 4000>>
LookAtOffset == <<0, 1600, 0>>
Codes == {"KeyW", "KeyA", "KeyS", "KeyD"}

----------------------------------------------------------------------------
(* Arithmetic of the fixed-point numbers *)

Min(a, b) == IF a < b THEN a ELSE b

Max(a, b) == IF a > b THEN a ELSE b

\* a / b rounded to the nearest integer, halves away from zero (b > 0)
RDiv(a, b) == IF a >= 0 THEN (2 * a + b) \div (2 * b)
                        ELSE -((2 * (-a) + b) \div (2 * b))

VAdd(u, v) == <<u[1] + v[1], u[2] + v[2], u[3] + v[3]>>

VSub(u, v) == <<u[1] - v[1], u[2] - v[2], u[3] - v[3]>>

\* sin of x milliradians, |x| <= HalfPi, in 1/1000
SinPoly(x) ==
    LET x2 == RDiv(x * x, Milli)
        x3 == RDiv(x2 * x, Milli)
        x5 == RDiv(x3 * x2, Milli)
        x7 == RDiv(x5 * x2, Milli)
    IN  x - RDiv(x3, 6) + RDiv(x5, 120) - RDiv(x7, 5040)

SinM(a) ==
    LET r == ((a + PiM) % (2 * PiM)) - PiM
        x == IF r > HalfPi THEN PiM - r
             ELSE IF r < -HalfPi THEN -PiM - r
             ELSE r
    IN  Max(-Milli, Min(Milli, SinPoly(x)))

CosM(a) == SinM(a + HalfPi)

\* a rotation about Y in the opposite sense
ApplyEuler_OppositeSense(v, ex, ey) ==
    LET x1 == RDiv(v[1] * CosM(ey) - v[3] * SinM(ey), Milli)
        z1 == RDiv(v[3] * CosM(ey) + v[1] * SinM(ey), Milli)
        y1 == v[2]
    IN  <<x1,
          RDiv(y1 * CosM(ex) - z1 * SinM(ex), Milli),
          RDiv(y1 * SinM(ex) + z1 * CosM(ex), Milli)>>

\* Vector3.applyQuaternion for the quaternion of Euler(ex, ey, 0), order XYZ:
\* the rotation about Y by ey, then the rotation about X by ex
ApplyEuler(v, ex, ey) ==
    LET x1 == RDiv(v[1] * CosM(ey) + v[3] * SinM(ey), Milli)
        z1 == RDiv(v[3] * CosM(ey) - v[1] * SinM(ey), Milli)
        y1 == v[2]
    IN  <<x1,
          RDiv(y1 * CosM(ex) - z1 * SinM(ex), Milli),
          RDiv(y1 * SinM(ex) + z1 * CosM(ex), Milli)>>

----------------------------------------------------------------------------
(* The pure parts of the handlers *)

\* a keydown listener without the hasOwnProperty test: an unknown code
\* becomes a new property of keys
KeysAfterDown_AnyCode(k, code) ==
    [c \in DOMAIN k \cup {code} |-> IF c = code THEN TRUE ELSE k[c]]

\* keydown listener: a code that is a property of keys becomes held
KeysAfterDown(k, code) == IF code \in DOMAIN k THEN [k EXCEPT ![code] = TRUE] ELSE k

\* a keyup listener that leaves the key held
KeysAfterUp_Sticky(k, code) == k

\* keyup listener: a code that is a property of keys becomes not held
KeysAfterUp(k, code) == IF code \in DOMAIN k THEN [k EXCEPT ![code] = FALSE] ELSE k

\* a registration that adds the callback again when it is there already
AddListener_Again(n) == n + 1

\* document.addEventListener with a listener that may be registered already:
\* the listener list holds a given callback once
AddListener(n) == IF n = 0 THEN 1 ELSE n

RemoveListener(n) == 0

\* the pointerlockchange listener's effect on the mousemove registration
ListenersAfterLockChange(elem, n) ==
    IF elem = "canvas" THEN AddListener(n) ELSE RemoveListener(n)

\* a clamp that forgets the lower limit
ClampPitch_UpperOnly(p) == Min(HalfPi, p)

ClampPitch(p) == Max(-HalfPi, Min(HalfPi, p))

\* onMouseMove: <<yaw, pitch>> after one sample
OnMouseMove(yp, dx, dy) ==
    <<yp[1] - dx * Sensitivity, ClampPitch(yp[2] - dy * Sensitivity)>>

\* the sample handled by each registered listener in turn
Dispatch(n, yp, dx, dy) ==
    IF n = 0 THEN yp
    ELSE IF n = 1 THEN OnMouseMove(yp, dx, dy)
    ELSE OnMouseMove(OnMouseMove(yp, dx, dy), dx, dy)

\* a frame that runs the character block without the guard
CharacterReady_Always(ch) == TRUE

\* the guard of the character block: if (character)
CharacterReady(ch) == ch

\* the guard of the animation block: if (walkAction)
WalkReady(wa) == wa

\* a delta without the cap
DeltaMs_Uncapped(gap) == gap

\* delta of a frame, in ms, from the gap since the previous frame
DeltaMs(gap) == Min(gap, MaxDeltaMs)

Bit(b) == IF b THEN 1 ELSE 0

\* a moveDir in which the later key of a pair wins instead of cancelling
MoveDir_LastKeyWins(k) ==
    <<IF k["KeyD"] THEN 1 ELSE -Bit(k["KeyA"]), 0,
      IF k["KeyS"] THEN 1 ELSE -Bit(k["KeyW"])>>

\* moveDir before normalisation
MoveDir(k) ==
    <<Bit(k["KeyD"]) - Bit(k["KeyA"]), 0, Bit(k["KeyS"]) - Bit(k["KeyW"])>>

LengthSq(v) == v[1] * v[1] + v[2] * v[2] + v[3] * v[3]

IsMoving(k) == LengthSq(MoveDir(k)) > 0

\* Vector3.normalize of a vector with components in -1..1, in 1/1000
Normalize(v) ==
    IF LengthSq(v) = 1 THEN <<v[1] * Milli, v[2] * Milli, v[3] * Milli>>
    ELSE IF LengthSq(v) = 2 THEN <<v[1] * 707, v[2] * 707, v[3] * 707>>
    ELSE IF LengthSq(v) = 3 THEN <<v[1] * 577, v[2] * 577, v[3] * 577>>
    ELSE v

\* the vector added to character.position by a frame
Displacement(k, yw, delta) ==
    IF IsMoving(k)
    THEN LET d == ApplyEuler(Normalize(MoveDir(k)), 0, yw)
         IN  <<RDiv(d[1] * MOVEMENT_SPEED * delta, Milli),
               RDiv(d[2] * MOVEMENT_SPEED * delta, Milli),
               RDiv(d[3] * MOVEMENT_SPEED * delta, Milli)>>
    ELSE <<0, 0, 0>>

\* a character block that turns the step by the pitch too
PoseAfter_Tilted(pos, k, yw, p, delta) ==
    LET d == ApplyEuler(Normalize(MoveDir(k)), p, yw)
    IN  [charYaw |-> yw,
         position |-> IF IsMoving(k)
                      THEN VAdd(pos, <<RDiv(d[1] * MOVEMENT_SPEED * delta, Milli),
                                       RDiv(d[2] * MOVEMENT_SPEED * delta, Milli),
                                       RDiv(d[3] * MOVEMENT_SPEED * delta, Milli)>>)
                      ELSE pos]

\* the character's pose after the character block of a frame run from
\* position pos with keys k, yaw yw and pitch p: the facing is the yaw and the
\* position advances by the step
PoseAfter(pos, k, yw, p, delta) ==
    [charYaw |-> yw, position |-> VAdd(pos, Displacement(k, yw, delta))]

\* a frame logic that restarts the walk on every moving frame
AnimCall_RestartEveryFrame(moving, was) ==
    IF moving THEN "start"
    ELSE IF was THEN "stop"
    ELSE "none"

\* a frame logic that stops the walk on every idle frame
AnimCall_StopEveryIdleFrame(moving, was) ==
    IF moving /\ ~was THEN "start"
    ELSE IF ~moving THEN "stop"
    ELSE "none"

\* a frame logic that never stops the walk
AnimCall_NeverStops(moving, was) ==
    IF moving /\ ~was THEN "start" ELSE "none"

\* the call the frame makes on walkAction
AnimCall(moving, was) ==
    IF moving /\ ~was THEN "start"
    ELSE IF ~moving /\ was THEN "stop"
    ELSE "none"

PlayingAfter(call, playing) ==
    IF call = "start" THEN TRUE
    ELSE IF call = "stop" THEN FALSE
    ELSE playing

\* a frame logic that never stores the flag
WasMovingAfter_Stale(moving, was) == was

\* the flag stored at the end of the animation block
WasMovingAfter(moving, was) == moving

CameraTarget(pos, p, yw) == VAdd(pos, ApplyEuler(FrontOffset, p, yw + PiM))

\* a camera that jumps to its target
Lerp_Snap(a, b) == b

\* Vector3.lerpVectors(a, b, 0.2)
Lerp(a, b) ==
    <<a[1] + RDiv((b[1] - a[1]) * LerpTenths, 10),
      a[2] + RDiv((b[2] - a[2]) * LerpTenths, 10),
      a[3] + RDiv((b[3] - a[3]) * LerpTenths, 10)>>

LookAtPoint(pos) == VAdd(pos, LookAtOffset)

\* a camera follow computed before the character is displaced
FollowCamera_BeforeDisplacement(cam, before, after, p, yw) ==
    [camPos |-> Lerp(cam, CameraTarget(before, p, yw)),
     lookAt |-> LookAtPoint(before)]

\* the camera follow of a frame that took the character from position before
\* to position after: it runs last and reads character.position as it then is
FollowCamera(cam, before, after, p, yw) ==
    [camPos |-> Lerp(cam, CameraTarget(after, p, yw)),
     lookAt |-> LookAtPoint(after)]

Init ==
    /\ character = FALSE
    /\ walkAction = FALSE
    /\ charLoad = "pending"
    /\ walkPlaying = FALSE
    /\ keys = [c \in Codes |-> FALSE]
    /\ yaw = 0
    /\ pitch = 0
    /\ pointerLockElement = "none"
    /\ lockRequested = FALSE
    /\ mouseListeners = 0
    /\ prevTime = 0
    /\ wasMoving = FALSE
    /\ charYaw = 0
    /\ position = CHARACTER_START_POSITION
    /\ camPos = CameraStart
    /\ lookAt = <<>>
    /\ aspect = <<800, 600>>
    /\ rendererSize = <<800, 600>>
    /\ moves = 0
    /\ log = <<>>
    /\ heldAtLoad = FALSE
    /\ lastFrame = [keys |-> keys, yaw |-> 0, pitch |-> 0, gap |-> 0,
                    from |-> CHARACTER_START_POSITION, cam |-> CameraStart]
    /\ lastMove = <<0, 0>>
    /\ house = "pending"
    /\ errorLog = <<>>
    /\ tapAt = -1
    /\ twin = [pitch |-> 0, charYaw |-> 0, position |-> CHARACTER_START_POSITION]

----------------------------------------------------------------------------
(* The handlers *)

camVars == <<camPos, lookAt>>
viewVars == <<aspect, rendererSize>>
ghostVars == <<moves, lastMove>>
lockVars == <<pointerLockElement, lockRequested, mouseListeners>>
assetVars == <<house, errorLog>>
charVars == <<character, walkAction, charLoad, heldAtLoad, assetVars>>
poseVars == <<charYaw, position>>
frameVars == <<prevTime, log, lastFrame>>

\* the character request succeeds: the onLoad callback of lines 67-76
LoadCharacter ==
    /\ charLoad = "pending"
    /\ charLoad' = "loaded"
    /\ character' = TRUE
    /\ position' = CHARACTER_START_POSITION
    /\ walkAction' = TRUE
    /\ walkPlaying' = TRUE
    /\ heldAtLoad' = IsMoving(keys)
    /\ UNCHANGED <<keys, yaw, pitch, lockVars, wasMoving, charYaw, camVars,
                   viewVars, frameVars, ghostVars, twin, assetVars,
                   tapAt>>

\* the character request fails: no callback of this program runs (load is
\* given no onError), and the loader reports the error on the console itself
LoadCharacterFails ==
    /\ charLoad = "pending"
    /\ charLoad' = "failed"
    /\ errorLog' = Append(errorLog, [asset |-> "character", frame |-> Len(log)])
    /\ UNCHANGED <<character, walkAction, heldAtLoad, walkPlaying, keys, yaw,
                   pitch, lockVars, wasMoving, poseVars, camVars, viewVars,
                   frameVars, ghostVars, twin, house,
                   tapAt>>

\* the house request succeeds: the onLoad callback of lines 54-59
LoadHouse ==
    /\ house = "pending"
    /\ house' = "loaded"
    /\ UNCHANGED <<character, walkAction, charLoad, heldAtLoad, errorLog,
                   walkPlaying, keys, yaw, pitch, lockVars, wasMoving, poseVars,
                   camVars, viewVars, frameVars, ghostVars, twin,
                   tapAt>>

\* a house failure that is not reported
LoadHouseFails_Silent ==
    /\ house = "pending"
    /\ house' = "failed"
    /\ UNCHANGED <<character, walkAction, charLoad, heldAtLoad, errorLog,
                   walkPlaying, keys, yaw, pitch, lockVars, wasMoving, poseVars,
                   camVars, viewVars, frameVars, ghostVars, twin,
                   tapAt>>

\* the house request fails: the onError callback of line 61
LoadHouseFails ==
    /\ house = "pending"
    /\ house' = "failed"
    /\ errorLog' = Append(errorLog, [asset |-> "house", frame |-> Len(log)])
    /\ UNCHANGED <<character, walkAction, charLoad, heldAtLoad, walkPlaying,
                   keys, yaw, pitch, lockVars, wasMoving, poseVars, camVars,
                   viewVars, frameVars, ghostVars, twin,
                   tapAt>>

KeyDown(code) ==
    /\ keys' = KeysAfterDown(keys, code)
    /\ tapAt' = IF KeysAfterDown(keys, code) # keys THEN -1 ELSE tapAt
    /\ UNCHANGED <<charVars, walkPlaying, yaw, pitch, lockVars, wasMoving,
                   poseVars, camVars, viewVars, frameVars, ghostVars, twin>>

KeyUp(code) ==
    /\ keys' = KeysAfterUp(keys, code)
    /\ tapAt' = IF KeysAfterUp(keys, code) # keys THEN -1 ELSE tapAt
    /\ UNCHANGED <<charVars, walkPlaying, yaw, pitch, lockVars, wasMoving,
                   poseVars, camVars, viewVars, frameVars, ghostVars, twin>>

\* keydown and then keyup of one key with no frame and no other event
\* between them
KeyTap(code) ==
    /\ keys' = KeysAfterUp(KeysAfterDown(keys, code), code)
    /\ tapAt' = IF \E c \in Codes : keys[c] THEN -1 ELSE Len(log)
    /\ UNCHANGED <<charVars, walkPlaying, yaw, pitch, lockVars, wasMoving,
                   poseVars, camVars, viewVars, frameVars, ghostVars, twin>>

\* click on the canvas: requestPointerLock
Click ==
    /\ lockRequested' = TRUE
    /\ UNCHANGED <<charVars, walkPlaying, keys, yaw, pitch, pointerLockElement,
                   mouseListeners, wasMoving, poseVars, camVars, viewVars,
                   frameVars, ghostVars, twin,
                   tapAt>>

\* pointerlockchange: the platform grants a request (elem = "canvas") or
\* releases the lock (elem = "none"), and the listener of lines 106-112 runs
PointerLockChange(elem) ==
    /\ \/ elem = "canvas" /\ lockRequested
       \/ elem = "none" /\ pointerLockElement = "canvas"
    /\ pointerLockElement' = elem
    /\ lockRequested' = IF elem = "canvas" THEN FALSE ELSE lockRequested
    /\ mouseListeners' = ListenersAfterLockChange(elem, mouseListeners)
    /\ UNCHANGED <<charVars, walkPlaying, keys, yaw, pitch, wasMoving,
                   poseVars, camVars, viewVars, frameVars, ghostVars, twin,
                   tapAt>>

\* pointerlockerror: the platform refuses a request; nothing listens to it
PointerLockError ==
    /\ lockRequested
    /\ lockRequested' = FALSE
    /\ UNCHANGED <<charVars, walkPlaying, keys, yaw, pitch, pointerLockElement,
                   mouseListeners, wasMoving, poseVars, camVars, viewVars,
                   frameVars, ghostVars, twin,
                   tapAt>>

\* a mouse-motion sample on the document
MouseMove(dx, dy) ==
    /\ moves' = moves + 1
    /\ lastMove' = <<dx, dy>>
    /\ LET yp == Dispatch(mouseListeners, <<yaw, pitch>>, dx, dy)
       IN  yaw' = yp[1] /\ pitch' = yp[2]
    /\ twin' = [twin EXCEPT !.pitch =
                    Dispatch(mouseListeners, <<yaw, twin.pitch>>, dx, dy)[2]]
    /\ UNCHANGED <<charVars, walkPlaying, keys, lockVars, wasMoving, poseVars,
                   camVars, viewVars, frameVars,
                   tapAt>>

\* the same motion sample in the first run, and in the second run one with
\* the vertical motion dyTwin
MouseMovePair(dx, dy, dyTwin) ==
    /\ moves' = moves + 1
    /\ lastMove' = <<dx, dy>>
    /\ LET yp == Dispatch(mouseListeners, <<yaw, pitch>>, dx, dy)
       IN  yaw' = yp[1] /\ pitch' = yp[2]
    /\ twin' = [twin EXCEPT !.pitch =
                    Dispatch(mouseListeners, <<yaw, twin.pitch>>, dx, dyTwin)[2]]
    /\ UNCHANGED <<charVars, walkPlaying, keys, lockVars, wasMoving, poseVars,
                   camVars, viewVars, frameVars,
                   tapAt>>

\* a resize listener that also puts the camera back where it started
Resize_ResetsCamera(size) ==
    /\ aspect' = size
    /\ rendererSize' = size
    /\ camPos' = CameraStart
    /\ UNCHANGED <<charVars, walkPlaying, keys, yaw, pitch, lockVars,
                   wasMoving, poseVars, lookAt, frameVars, ghostVars, twin,
                   tapAt>>

\* the resize listener
Resize(size) ==
    /\ aspect' = size
    /\ rendererSize' = size
    /\ UNCHANGED <<charVars, walkPlaying, keys, yaw, pitch, lockVars,
                   wasMoving, poseVars, camVars, frameVars, ghostVars, twin,
                   tapAt>>

\* one run of animate, gap ms after the previous one. The log entry says
\* whether the character block ran, whether the held keys gave a non-zero
\* net intent, and which call the frame made on walkAction
Frame(gap) ==
    /\ prevTime' = prevTime + gap
    /\ lastFrame' = [keys |-> keys, yaw |-> yaw, pitch |-> pitch, gap |-> gap,
                     from |-> position, cam |-> camPos]
    /\ IF CharacterReady(character)
       THEN LET delta == DeltaMs((prevTime + gap) - prevTime)
                moving == IsMoving(keys)
                pose == PoseAfter(position, keys, yaw, pitch, delta)
                newPos == pose.position
                call == IF WalkReady(walkAction) THEN AnimCall(moving, wasMoving)
                                                 ELSE "none"
                follow == FollowCamera(camPos, position, newPos, pitch, yaw)
            IN  /\ charYaw' = pose.charYaw
                /\ position' = newPos
                /\ twin' = [pitch |-> twin.pitch] @@
                           PoseAfter(twin.position, keys, yaw, twin.pitch, delta)
                /\ walkPlaying' = PlayingAfter(call, walkPlaying)
                /\ wasMoving' = IF WalkReady(walkAction)
                                THEN WasMovingAfter(moving, wasMoving)
                                ELSE wasMoving
                /\ camPos' = follow.camPos
                /\ lookAt' = follow.lookAt
                /\ log' = Append(log, [loaded |-> TRUE, moving |-> moving,
                                       call |-> call])
       ELSE /\ UNCHANGED <<poseVars, walkPlaying, wasMoving, camVars, twin>>
            /\ log' = Append(log, [loaded |-> FALSE, moving |-> IsMoving(keys),
                                   call |-> "none"])
    /\ UNCHANGED <<charVars, keys, yaw, pitch, lockVars, viewVars, ghostVars,
                   tapAt>>

Next ==
    \/ LoadCharacter
    \/ LoadCharacterFails
    \/ \E code \in HeldCodes \cup OtherCodes : KeyDown(code)
    \/ \E code \in HeldCodes \cup OtherCodes : KeyUp(code)
    \/ Click
    \/ \E elem \in {"canvas", "none"} : PointerLockChange(elem)
    \/ PointerLockError
    \/ \E d \in MouseDeltas : moves < MaxMoves /\ MouseMove(d[1], d[2])
    \/ \E size \in WindowSizes : Resize(size)
    \/ \E gap \in Gaps : Len(log) < MaxFrames /\ Frame(gap)

Spec == Init /\ [][Next]_vars

\* keyboard, load and frames only, with more frames
NextWalk ==
    \/ LoadCharacter
    \/ LoadCharacterFails
    \/ \E code \in Codes \cup OtherCodes : KeyDown(code)
    \/ \E code \in Codes \cup OtherCodes : KeyUp(code)
    \/ \E gap \in WalkGaps : Len(log) < MaxWalkFrames /\ Frame(gap)

SpecWalk == Init /\ [][NextWalk]_vars

\* pointer capture and mouse look, with load, one key and frames
NextLook ==
    \/ LoadCharacter
    \/ \E code \in LookCodes : KeyDown(code)
    \/ \E code \in LookCodes : KeyUp(code)
    \/ Click
    \/ \E elem \in {"canvas", "none"} : PointerLockChange(elem)
    \/ PointerLockError
    \/ \E d \in LookDeltas : moves < MaxLookMoves /\ MouseMove(d[1], d[2])
    \/ \E gap \in LookGaps : Len(log) < MaxLookFrames /\ Frame(gap)

SpecLook == Init /\ [][NextLook]_vars

\* the four keys under several headings and frame times
NextMove ==
    \/ LoadCharacter
    \/ \E code \in Codes : KeyDown(code)
    \/ \E code \in Codes : KeyUp(code)
    \/ Click
    \/ \E elem \in {"canvas", "none"} : PointerLockChange(elem)
    \/ \E d \in MoveDeltas : moves < MaxMoves /\ MouseMove(d[1], d[2])
    \/ \E gap \in MoveGaps : Len(log) < MaxFrames /\ Frame(gap)

SpecMove == Init /\ [][NextMove]_vars

\* a character that stands still for many frames
NextSettle ==
    \/ LoadCharacter
    \/ \E gap \in WalkGaps : Len(log) < MaxSettleFrames /\ Frame(gap)

SpecSettle == Init /\ [][NextSettle]_vars

\* two runs side by side: load, two keys, pointer lock, motion samples whose
\* vertical part differs between the runs, frames
NextTwin ==
    \/ LoadCharacter
    \/ \E code \in TwinCodes : KeyDown(code)
    \/ \E code \in TwinCodes : KeyUp(code)
    \/ Click
    \/ \E elem \in {"canvas", "none"} : PointerLockChange(elem)
    \/ \E d \in TwinDeltas : moves < MaxLookMoves /\ MouseMovePair(d[1], d[2], d[3])
    \/ \E gap \in MoveGaps : Len(log) < MaxLookFrames /\ Frame(gap)

SpecTwin == Init /\ [][NextTwin]_vars

\* load, frames, and keys that are pressed, released, or pressed and released
\* in one go
NextTap ==
    \/ LoadCharacter
    \/ \E code \in LookCodes : KeyDown(code)
    \/ \E code \in LookCodes : KeyUp(code)
    \/ \E code \in Codes : KeyTap(code)
    \/ \E gap \in WalkGaps : Len(log) < MaxWalkFrames /\ Frame(gap)

SpecTap == Init /\ [][NextTap]_vars

\* the two asset requests, each succeeding or failing, with one key and frames
NextAssets ==
    \/ LoadCharacter
    \/ LoadCharacterFails
    \/ LoadHouse
    \/ LoadHouseFails
    \/ \E code \in LookCodes : KeyDown(code)
    \/ \E code \in LookCodes : KeyUp(code)
    \/ \E gap \in WalkGaps : Len(log) < MaxWalkFrames /\ Frame(gap)

SpecAssets == Init /\ [][NextAssets]_vars

----------------------------------------------------------------------------
(* Properties *)

Frames == 1..Len(log)

\* frame i ran the character block with a non-zero net intent
Walked(i) == log[i].loaded /\ log[i].moving

\* frame i ran the character block with a zero net intent
Rested(i) == log[i].loaded /\ ~log[i].moving

\* the loaded frame before frame i had a non-zero net intent
WalkedBefore(i) == i > 1 /\ Walked(i - 1)

Calls(i, j, c) == Cardinality({k \in i..j : log[k].call = c})

\* C1 (as claimed): with the character loaded, the walk animation is playing
\* exactly when the latest moving/idle edge was a transition into motion, so
\* it is not playing after the load while no movement was seen
C1_PlaysIffWalking == character => (walkPlaying <=> wasMoving)

\* C2: a run of N >= 1 consecutive loaded frames with non-zero intent that
\* starts from an idle frame issues exactly one start call (on its first
\* frame) and no stop call, and a loaded frame whose moving flag equals the
\* previous frame's issues no call
C2_OneStartPerHold ==
    /\ \A i \in Frames : \A j \in i..Len(log) :
          ((\A k \in i..j : Walked(k)) /\ ~WalkedBefore(i))
             => /\ Calls(i, j, "start") = 1
                /\ log[i].call = "start"
                /\ Calls(i, j, "stop") = 0
    /\ \A i \in Frames :
          (log[i].loaded /\ log[i].moving = WalkedBefore(i)) => log[i].call = "none"

C2_Witness ==
    /\ Len(log) >= 3
    /\ \A i \in Frames : Walked(i)
    /\ Calls(1, Len(log), "start") = 1

\* C3: once the character walks, the first loaded frame that sees a zero net
\* intent issues the stop call, and the idle frames after it issue none:
\* exactly one stop per release, however long the key was held
C3_OneStopPerRelease ==
    \A i \in Frames : \A j \in i..Len(log) :
        ((\A k \in i..j : Rested(k)) /\ WalkedBefore(i))
           => /\ Calls(i, j, "stop") = 1
              /\ log[i].call = "stop"
              /\ Calls(i, j, "start") = 0

C3_Witness ==
    /\ Len(log) >= 3
    /\ Walked(1) /\ Rested(2) /\ Rested(3)
    /\ log[2].call = "stop"
    /\ ~walkPlaying

\* frame i is the first frame that ran the character block
FirstLoaded(i) == log[i].loaded /\ (i = 1 \/ ~log[i - 1].loaded)

\* C6: key presses and frames before the load leave the previous-moving flag
\* false, so the first frame after the load that sees a held movement key
\* issues exactly one start call and sets the flag
C6_FirstFrameAfterLoadStarts ==
    /\ (\A i \in Frames : ~log[i].loaded) => ~wasMoving
    /\ \A i \in Frames :
          (FirstLoaded(i) /\ log[i].moving)
             => /\ log[i].call = "start"
                /\ Calls(1, i, "start") = 1
                /\ (i = Len(log) => wasMoving)

C6_Witness ==
    /\ heldAtLoad
    /\ Len(log) = 2
    /\ ~log[1].loaded /\ log[1].moving
    /\ FirstLoaded(2) /\ log[2].moving /\ log[2].call = "start"
    /\ wasMoving

\* every held key has its opposite held too
AllCancelled(k) ==
    /\ \E c \in Codes : k[c]
    /\ k["KeyW"] = k["KeyS"]
    /\ k["KeyA"] = k["KeyD"]

LastEntry == log[Len(log)]

\* C7: an opposing pair held together contributes zero intent on its axis,
\* and a loaded frame that reads only cancelled keys does not move: it leaves
\* the character where it was and counts as idle for the animation
C7_OpposingKeysCancel ==
    /\ (keys["KeyW"] /\ keys["KeyS"]) => MoveDir(keys)[3] = 0
    /\ (keys["KeyA"] /\ keys["KeyD"]) => MoveDir(keys)[1] = 0
    /\ (Len(log) > 0 /\ LastEntry.loaded /\ AllCancelled(lastFrame.keys))
          => /\ position = lastFrame.from
             /\ ~LastEntry.moving
             /\ LastEntry.call # "start"
             /\ ~wasMoving

C7_Witness ==
    /\ Len(log) = 2
    /\ Walked(1) /\ Rested(2)
    /\ lastFrame.keys["KeyW"] /\ lastFrame.keys["KeyS"]
    /\ lastFrame.keys["KeyA"] /\ lastFrame.keys["KeyD"]
    /\ position = lastFrame.from
    /\ position # CHARACTER_START_POSITION

\* C4: pitch stays within [-pi/2, +pi/2] whatever the mouse deltas, capture
\* changes, key events, load completion and frames
C4_PitchClamped == -HalfPi <= pitch /\ pitch <= HalfPi

C4_Witness ==
    /\ moves = 2
    /\ pitch = -HalfPi
    /\ lastMove[2] > 0
    /\ Len(log) > 0

\* C5: as long as the character is not loaded, every frame so far was a no-op
\* for character and camera: the camera is at (0, 3, 10) and was never aimed,
\* no start or stop call was issued, the previous-moving flag is false, and
\* each frame still ran to its end (it is in the log and advanced prevTime)
C5_NoOpBeforeLoad ==
    ~character =>
        /\ camPos = CameraStart
        /\ lookAt = <<>>
        /\ position = CHARACTER_START_POSITION
        /\ charYaw = 0
        /\ ~wasMoving
        /\ ~walkPlaying
        /\ \A i \in Frames : ~log[i].loaded /\ log[i].call = "none"
        /\ (Len(log) > 0 => prevTime >= lastFrame.gap)

C5_Witness ==
    /\ ~character
    /\ Len(log) > 0
    /\ lastFrame.keys["KeyW"]
    /\ lastFrame.yaw # 0
    /\ pitch # 0
    /\ LastEntry.moving

\* C9: a mouse-motion sample changes yaw and pitch exactly when pointer
\* capture is active at that moment; it is then applied exactly once
\* (yaw -= dx * sensitivity, pitch -= dy * sensitivity, clamped), whatever
\* captures and releases came before; nothing else changes yaw or pitch
C9_SampleAppliedIffCaptured ==
    [][/\ (moves' = moves + 1 /\ pointerLockElement = "canvas")
            => /\ yaw' = yaw - lastMove'[1] * Sensitivity
               /\ pitch' = Max(-HalfPi, Min(HalfPi, pitch - lastMove'[2] * Sensitivity))
       /\ (moves' = moves + 1 /\ pointerLockElement # "canvas")
            => (yaw' = yaw /\ pitch' = pitch)
       /\ (yaw' # yaw \/ pitch' # pitch)
            => (moves' = moves + 1 /\ pointerLockElement = "canvas")]_vars

\* captured, sampled, released, sampled: only the first sample was applied
C9_Witness ==
    /\ moves = 2
    /\ pointerLockElement = "none"
    /\ lastMove = <<30, -40>>
    /\ yaw = 500
    /\ pitch = -HalfPi

\* C10: a loaded frame uses min(gap, 0.05 s): after a gap of 0.05 s or more
\* (2 s included) the character has moved by the displacement of a gap of
\* exactly 0.05 s, and no frame moves it by more than speed * 0.05 (to within
\* one step of the fixed-point grid)
C10_DeltaCapped ==
    (Len(log) > 0 /\ LastEntry.loaded) =>
        LET disp == VSub(position, lastFrame.from)
            most == MOVEMENT_SPEED * MaxDeltaMs + 1
        IN  /\ lastFrame.gap >= MaxDeltaMs
                  => disp = Displacement(lastFrame.keys, lastFrame.yaw, MaxDeltaMs)
            /\ LengthSq(disp) <= most * most

C10_Witness ==
    /\ Len(log) > 0 /\ LastEntry.loaded /\ LastEntry.moving
    /\ lastFrame.gap = 2000
    /\ lastFrame.yaw # 0
    /\ LengthSq(VSub(position, lastFrame.from)) >= 249 * 249

\* every variable but keys
notKeys == <<character, walkAction, charLoad, walkPlaying, yaw, pitch,
             pointerLockElement, lockRequested, mouseListeners, prevTime,
             wasMoving, charYaw, position, camPos, lookAt, aspect,
             rendererSize, moves, log, heldAtLoad, lastFrame, lastMove,
             house, errorLog, twin, tapAt>>

\* C8: key-down of a mapped code sets exactly that key to held, key-up sets
\* exactly that key to not held, and any other code leaves the map as it is;
\* the map has always the four keys, and a step that changes it changes one
\* key and nothing else, so no frame, mouse sample, capture change, load
\* completion or resize ever changes a key
C8_KeysChangeOnlyByKeyEvents ==
    /\ [](/\ DOMAIN keys = Codes
          /\ \A c \in Codes :
                /\ KeysAfterDown(keys, c) = [keys EXCEPT ![c] = TRUE]
                /\ KeysAfterUp(keys, c) = [keys EXCEPT ![c] = FALSE]
          /\ \A c \in OtherCodes :
                KeysAfterDown(keys, c) = keys /\ KeysAfterUp(keys, c) = keys)
    /\ [][keys' # keys
            => /\ \E c \in Codes : keys' = [keys EXCEPT ![c] = ~keys[c]]
               /\ UNCHANGED notKeys]_vars

\* KeyW is still held after a frame that read it, a mouse sample under
\* capture, the load and a resize
C8_Witness ==
    /\ keys["KeyW"] /\ ~keys["KeyA"] /\ ~keys["KeyS"] /\ ~keys["KeyD"]
    /\ Len(log) > 0 /\ lastFrame.keys = keys
    /\ character
    /\ moves > 0 /\ yaw # 0
    /\ pointerLockElement = "none" /\ mouseListeners = 0
    /\ aspect # <<800, 600>>

\* exactly one of the four keys is held
OnlyKey(k, c) == k[c] /\ \A d \in Codes \ {c} : ~k[d]

\* the axis of a key turned by the heading yw, in 1/1000:
\* forward is -z, back +z, left -x, right +x at heading 0
TurnedAxis(c, yw) ==
    IF c = "KeyW" THEN <<-SinM(yw), 0, -CosM(yw)>>
    ELSE IF c = "KeyS" THEN <<SinM(yw), 0, CosM(yw)>>
    ELSE IF c = "KeyA" THEN <<-CosM(yw), 0, SinM(yw)>>
    ELSE <<CosM(yw), 0, -SinM(yw)>>

\* speed * dt of the latest frame, in 1/1000
StepLength == MOVEMENT_SPEED * Min(lastFrame.gap, MaxDeltaMs)

\* C11: a loaded frame that read exactly one held key, with elapsed time dt
\* (at most 0.05 s), moved the character by speed * dt along that key's axis
\* turned by the yaw of the frame: each component is the turned unit axis
\* times speed * dt, and the length is speed * dt to within one step of the
\* fixed-point grid
C11_SingleKeyStep ==
    (Len(log) > 0 /\ log[Len(log)].loaded) =>
        \A c \in Codes :
            OnlyKey(lastFrame.keys, c) =>
                LET disp == VSub(position, lastFrame.from)
                    axis == TurnedAxis(c, lastFrame.yaw)
                IN  /\ \A i \in 1..3 : disp[i] = RDiv(axis[i] * StepLength, Milli)
                    /\ LengthSq(disp) >= (StepLength - 1) * (StepLength - 1)
                    /\ LengthSq(disp) <= (StepLength + 1) * (StepLength + 1)

C11_Witness ==
    /\ Len(log) > 0 /\ log[Len(log)].loaded
    /\ OnlyKey(lastFrame.keys, "KeyA")
    /\ lastFrame.yaw = 500
    /\ lastFrame.gap = 16
    /\ position # lastFrame.from

\* the latest frame ran the character block and left the character in place
StoodStill == Len(log) > 0 /\ log[Len(log)].loaded /\ position = lastFrame.from

\* the camera target of the latest frame
Target == CameraTarget(position, lastFrame.pitch, lastFrame.yaw)

\* from the camera to its target, before and after the latest frame
GapBefore == VSub(Target, lastFrame.cam)
GapAfter == VSub(Target, camPos)

\* a is 0.8 * b to within the rounding of one fixed-point step
FourFifths(a, b) == 10 * a - 8 * b <= 5 /\ 8 * b - 10 * a <= 5

\* more than the rounding of the lerp can hide: 0.2 * d rounds to a step or more
AboveRounding(v) == \E i \in 1..3 : v[i] >= 3 \/ v[i] <= -3

Logged(asset) == \E i \in 1..Len(errorLog) : errorLog[i].asset = asset

Reports(asset) == Cardinality({i \in 1..Len(errorLog) : errorLog[i].asset = asset})

\* C13: a failed load is logged once and never retried, the asset stays
\* absent, and the other asset is not affected: after a character failure
\* the handle is never set, every frame skips the character and camera
\* logic, and frames keep running
C13_FailedAssetStaysAbsent ==
    /\ [](/\ (house = "failed") = Logged("house")
          /\ (charLoad = "failed") = Logged("character")
          /\ Reports("house") <= 1 /\ Reports("character") <= 1
          /\ charLoad = "failed"
                => /\ ~character /\ ~walkAction /\ ~walkPlaying /\ ~wasMoving
                   /\ camPos = CameraStart /\ lookAt = <<>>
                   /\ \A i \in Frames : ~log[i].loaded /\ log[i].call = "none")
    /\ [][/\ house = "failed" => house' = "failed"
          /\ charLoad = "failed" => (charLoad' = "failed" /\ ~character')
          /\ house' # house
                => UNCHANGED <<character, walkAction, charLoad, walkPlaying,
                               wasMoving, position, camPos, log, prevTime>>
          /\ charLoad' # charLoad
                => UNCHANGED <<house, log, prevTime, camPos>>]_vars

\* the character failed before any frame, the house loaded, and all the
\* frames of the run came after the failure
C13_Witness ==
    /\ charLoad = "failed" /\ house = "loaded"
    /\ errorLog = <<[asset |-> "character", frame |-> 0]>>
    /\ Len(log) = MaxWalkFrames
    /\ lastFrame.keys["KeyW"]
    /\ prevTime > 0

\* C14: the character's position and facing after a frame are the same in
\* two runs fed the same keys, horizontal mouse motion, load and frame times
\* and differing only in the vertical mouse motion, hence in pitch
C14_PoseIgnoresPitch ==
    twin.position = position /\ twin.charYaw = charYaw

\* after one motion sample that left the two runs with different pitch, a
\* frame turned the character and moved it
C14_Witness ==
    /\ moves = 1
    /\ Len(log) > 0 /\ log[Len(log)].loaded
    /\ lastFrame.pitch = pitch /\ pitch # 0
    /\ twin.pitch # pitch /\ twin.pitch # 0
    /\ charYaw # 0
    /\ position # lastFrame.from

\* C15: after every loaded frame the character faces that frame's yaw and
\* stands at its displaced position, the camera has moved a fifth of the way
\* to the target taken from the displaced position, and the look-at point is
\* the displaced position plus (0, 1.6, 0), while the camera position lags
C15_CameraFollowsDisplacedCharacter ==
    /\ lookAt # <<>> => lookAt = VAdd(position, LookAtOffset)
    /\ (Len(log) > 0 /\ log[Len(log)].loaded)
          => /\ charYaw = lastFrame.yaw
             /\ position = VAdd(lastFrame.from,
                                Displacement(lastFrame.keys, lastFrame.yaw,
                                             Min(lastFrame.gap, MaxDeltaMs)))
             /\ log[Len(log)].call \in {"none", "start", "stop"}
             /\ camPos = Lerp(lastFrame.cam,
                              CameraTarget(position, lastFrame.pitch, lastFrame.yaw))
             /\ lookAt = VAdd(position, LookAtOffset)

\* a frame that displaced the character under a turned and tilted view: the
\* look-at point is on the new position and the camera is short of its target
C15_Witness ==
    /\ Len(log) > 0 /\ log[Len(log)].loaded
    /\ position # lastFrame.from
    /\ lastFrame.yaw # 0 /\ lastFrame.pitch # 0
    /\ lookAt = VAdd(position, LookAtOffset)
    /\ lookAt # VAdd(lastFrame.from, LookAtOffset)
    /\ camPos # CameraTarget(position, lastFrame.pitch, lastFrame.yaw)
    /\ camPos # lastFrame.cam

\* C16: a step that changes the camera aspect or the renderer size sets both
\* from the same window size and changes nothing else: key map, yaw, pitch,
\* previous-moving flag, character pose, camera position and look-at,
\* animation state, load state, pointer lock and frame clock stay as they were
C16_ResizeChangesOnlyView ==
    [][(aspect' # aspect \/ rendererSize' # rendererSize)
          => /\ aspect' \in WindowSizes
             /\ rendererSize' = aspect'
             /\ UNCHANGED <<keys, yaw, pitch, wasMoving, position, charYaw,
                            camPos, lookAt, walkPlaying, character, walkAction,
                            charLoad, pointerLockElement, lockRequested,
                            mouseListeners, prevTime, log>>]_vars

\* the window was resized in a run that has a key held, a turned view and a
\* character that walked with the camera following
C16_Witness ==
    /\ aspect = <<1280, 720>> /\ rendererSize = <<1280, 720>>
    /\ \E c \in Codes : keys[c]
    /\ yaw # 0 /\ pitch # 0
    /\ wasMoving /\ walkPlaying
    /\ position # CHARACTER_START_POSITION
    /\ camPos # CameraStart

\* starts issued minus stops issued by the first n frames
Balance(n) == Calls(1, n, "start") - Calls(1, n, "stop")

\* C17: the start and stop calls of the frames alternate, beginning with a
\* start (after any number of frames the starts issued exceed the stops
\* issued by 0 or 1), and after every loaded frame the difference is 1 if
\* the previous-moving flag is true and 0 if it is false
C17_StartStopAlternate ==
    /\ \A n \in Frames :
          /\ Balance(n) \in {0, 1}
          /\ log[n].call = "start" => Balance(n - 1) = 0
          /\ log[n].call = "stop" => Balance(n - 1) = 1
          /\ log[n].loaded => Balance(n) = Bit(log[n].moving)
    /\ Balance(Len(log)) = Bit(wasMoving)

\* walk, rest, walk: start, stop, start
C17_Witness ==
    /\ Len(log) >= 3
    /\ log[1].call = "start" /\ log[2].call = "stop" /\ log[3].call = "start"
    /\ Balance(3) = 1
    /\ wasMoving

\* C18: keys are read only by frames. A key pressed and released between
\* frame n and frame n + 1, with no key held, leaves no key held: frame n + 1
\* samples a zero intent and does not displace the character, and it makes no
\* start or stop call unless frame n had walked (a stop, for the release
\* before the tap). After every loaded frame the previous-moving flag is
\* whether the keys that frame sampled gave a non-zero net intent
C18_KeysSampledAtFrames ==
    /\ tapAt >= 0 => \A c \in Codes : ~keys[c]
    /\ (tapAt >= 1 /\ Len(log) > tapAt /\ log[tapAt + 1].loaded)
          => /\ ~log[tapAt + 1].moving
             /\ log[tapAt + 1].call # "start"
             /\ Rested(tapAt) => log[tapAt + 1].call = "none"
             /\ Len(log) = tapAt + 1
                   => /\ position = lastFrame.from
                      /\ ~wasMoving
                      /\ \A c \in Codes : ~lastFrame.keys[c]
    /\ (Len(log) > 0 /\ log[Len(log)].loaded)
          => /\ wasMoving = IsMoving(lastFrame.keys)
             /\ log[Len(log)].moving = IsMoving(lastFrame.keys)
             /\ position # lastFrame.from => IsMoving(lastFrame.keys)

\* two loaded idle frames with a key pressed and released between them
C18_Witness ==
    /\ character
    /\ tapAt = 1 /\ Len(log) = 2
    /\ Rested(1) /\ Rested(2)
    /\ log[1].call = "none" /\ log[2].call = "none"
    /\ position = CHARACTER_START_POSITION

====
